---- MODULE Spec2Model ----
(***************************************************************************)
(* A model of run_demo.py: the dataset merger (collect_events), the TCP    *)
(* replay server (start_server, EventStreamRequestHandler.handle), the     *)
(* fusion engine (FusionEngine), the event mapper (Mapper), the line       *)
(* reader (readlines) and the consumer loop (consume_once).                *)
(*                                                                         *)
(* Time is counted in ticks, TicksPerSecond of them to a second.  A        *)
(* datetime is [wall, aware, off]: its wall-clock fields, whether it has a *)
(* tzinfo, and its UTC offset; two aware datetimes compare by wall - off.  *)
(* A timestamp string is [valid, wall, aware, off]; valid = FALSE stands   *)
(* for a value datetime.fromisoformat rejects (or a missing key).          *)
(***************************************************************************)
EXTENDS Integers, Sequences, FiniteSets, TLC

\* ------------------------------------------------------------------ bounds
MaxTs == 2            \* timestamps are 0..MaxTs ticks
MaxMergeEvents == 3   \* records in the merger's inputs (SpecMerge)
MaxEvents == 3        \* records in the replay session's inputs (SpecReplay)
MaxCycles == 1        \* a looping handler stops before cycle MaxCycles + 1
MaxConns == 2         \* connections the server accepts
MaxServerEvents == 1  \* records in the concurrent server's inputs (SpecServer)
MaxServerTs == 1      \* their timestamps are 0..MaxServerTs ticks
MaxCalls == 3         \* FusionEngine calls in SpecFusion
MaxArrivals == 22     \* records stored in SpecBuffers
MaxRecords == 3       \* records stored in SpecScore
MaxWritten == 3       \* a Mapper call is made while fewer events are written (SpecMapper)
MaxBytes == 4         \* bytes of the stream readlines reads (SpecReader)
MaxLines == 3         \* lines readlines yields to consume_once (SpecConsumer)
TicksPerSecond == 2   \* ticks to a second

VARIABLES
  inputs,        \* the dataset files: one sequence of payloads per path
  speed,         \* server.speed, a rational [num, den]
  loop,          \* server.loop
  main,          \* the main thread: "init", "serving", "ValueError", "TypeError"
  events,        \* server.events
  dataset_names, \* server.dataset_names
  cycle_span,    \* server.cycle_span, in ticks
  pc,            \* per connection: "idle", "banner", "loop", "returned", "raised"
  loop_index,    \* per connection: handle's loop_index
  prev,          \* per connection: handle's prev, <<>> for None
  sequence,      \* per connection: handle's sequence
  idx,           \* per connection: the for loop's position in server.events
  sent,          \* per connection: the messages sendall has delivered
  slept,         \* per connection: the arguments of the time.sleep calls
  disconnected,  \* per connection: the peer broke or reset the connection
  state,         \* FusionEngine.state: station -> its buffers, queue, score, reasons
  accepted,      \* per station and signal: every record a push has stored, in order
  last_call,     \* the FusionEngine or Mapper call made last: its name, station and record,
                 \* and whether the call before it had the same name and station
  calls,         \* the number of FusionEngine calls made
  result,        \* what the FusionEngine call made last returned or raised
  _counter,      \* Mapper._counter
  _fh,           \* Mapper._fh: the payloads written to the output file, in order
  incoming,      \* consume_once: the lines readlines has yet to yield
  ending,        \* what follows the last chunk or line: "closed" or "timeout"
  frames,        \* consume_once: frames
  consumer,      \* consume_once: "reading", "returned" or the exception raised
  stream,        \* readlines: the bytes the peer sends on the connection
  recvs,         \* readlines: the chunks sock.recv has yet to return
  buff,          \* readlines: buff
  lines,         \* readlines: the lines yielded so far
  reader         \* readlines: "reading", "stopped" or the exception raised

vars == <<inputs, speed, loop, main, events, dataset_names, cycle_span,
          pc, loop_index, prev, sequence, idx, sent, slept, disconnected,
          state, accepted, last_call, calls, result,
          _counter, _fh, incoming, ending, frames, consumer,
          stream, recvs, buff, lines, reader>>

serverVars == <<inputs, speed, loop, main, events, dataset_names, cycle_span>>
connVars == <<pc, loop_index, prev, sequence, idx, sent, slept, disconnected>>
fusionVars == <<state, accepted, last_call, calls, result>>
mapperVars == <<_counter, _fh>>
consumerVars == <<incoming, ending, frames, consumer>>
readerVars == <<stream, recvs, buff, lines, reader>>
clientVars == <<mapperVars, consumerVars, readerVars>>

\* ------------------------------------------------------------ timestamps
Paths == <<"pos_transactions", "rfid_readings">>

FILENAME_TO_CANONICAL(stem) ==
  CASE stem = "pos_transactions" -> "POS_Transactions"
    [] stem = "rfid_readings" -> "RFID_data"
    [] stem = "queue_monitoring" -> "Queue_monitor"
    [] stem = "product_recognition" -> "Product_recognism"
    [] stem = "inventory_snapshots" -> "Current_inventory_data"
    [] OTHER -> stem

BadTimestamp == [valid |-> FALSE, wall |-> 0, aware |-> FALSE, off |-> 0]

\* The timestamp strings of the merger's inputs: naive ones, aware ones at
\* offsets 0 and 1 tick, and one that does not parse.
MergeTimestamps ==
  {BadTimestamp}
  \cup {[valid |-> TRUE, wall |-> w, aware |-> FALSE, off |-> 0] : w \in 0..MaxTs}
  \cup {[valid |-> TRUE, wall |-> w, aware |-> TRUE, off |-> o] : w \in 0..MaxTs, o \in {0, 1}}

\* The timestamp strings of the replay session's inputs: all aware, offset 0.
ReplayTimestamps ==
  {[valid |-> TRUE, wall |-> w, aware |-> TRUE, off |-> 0] : w \in 0..MaxTs}

\* The timestamp strings of the concurrent server's inputs.
ServerTimestamps ==
  {[valid |-> TRUE, wall |-> w, aware |-> TRUE, off |-> 0] : w \in 0..MaxServerTs}

\* datetime.fromisoformat on a string that parses.
fromisoformat(s) == [wall |-> s.wall, aware |-> s.aware, off |-> s.off]

\* datetime.isoformat.
isoformat(dt) == [valid |-> TRUE, wall |-> dt.wall, aware |-> dt.aware, off |-> dt.off]

\* The instant a datetime compares by.
Instant(dt) == IF dt.aware THEN dt.wall - dt.off ELSE dt.wall

\* datetime - datetime, a timedelta in ticks.
DtSub(a, b) == Instant(a) - Instant(b)

\* datetime + timedelta.
DtAdd(dt, d) == [dt EXCEPT !.wall = @ + d]

\* ---------------------------------------------------------- FusionEngine
\* A JSON value that is null is NULL and a key that is absent is MISSING;
\* dict.get answers None for both.  A number that may be absent is <<>> or
\* <<n>>.  Weights are grams; accuracies and scores are hundredths.  A record
\* whose accuracy, customer_count or average_dwell_time is a JSON null names
\* the key in its nulls field.
NULL == "<null>"
MISSING == "<missing>"

Stations == {"SCC1", "SCC2"}

POS_CAP == 10
RFID_CAP == 20
VISION_CAP == 10
VISION_CONF == 85
WEIGHT_TOL_PCT == 7
SCAN_AVOIDANCE == 40
RFID_IN_BAG == 20
BARCODE_SWITCH == 30
WEIGHT_DELTA == 25
QUEUE_BUMP == 5
QUEUE_CUSTOMERS == 6
QUEUE_DWELL == 120

\* bool(x) of a string or None.
Truthy(x) == x \notin {NULL, MISSING, ""}

\* The products_list.csv table read by _load_weights.
WeightTable == [sku \in {"PRD_A", "PRD_B"} |-> IF sku = "PRD_A" THEN 400 ELSE 480]

\* self.weights.get(sku)
WeightsGet(sku) == IF sku \in DOMAIN WeightTable THEN <<WeightTable[sku]>> ELSE <<>>

\* What _get creates for a station seen for the first time; until then the
\* station is not a key of self.state (present = FALSE).
NoStation ==
  [present |-> FALSE, pos |-> <<>>, rfid |-> <<>>, vision |-> <<>>,
   queue |-> [customer_count |-> <<>>, average_dwell_time |-> <<>>, nulls |-> {}],
   score |-> 0, reasons |-> <<>>]

_get(st) == [state[st] EXCEPT !.present = TRUE]

\* append, then pop(0) when the list is longer than cap.
AppendBoundedDropNewest(buf, x, cap) ==
  IF Len(buf) + 1 > cap THEN buf ELSE Append(buf, x)

AppendBounded(buf, x, cap) ==
  LET longer == Append(buf, x)
  IN  IF Len(longer) > cap THEN Tail(longer) ELSE longer

\* The record push_pos leaves in the buffer: data, with expected_weight set
\* when its sku is a key of the weight table.
WithExpectedWeight(data) ==
  IF Truthy(data.sku) /\ WeightsGet(data.sku) /= <<>>
    THEN [data EXCEPT !.expected_weight = WeightsGet(data.sku)]
    ELSE data

\* not any((data.get("sku"), data.get("epc"), data.get("location")))
NullOnlyNever(data) == FALSE

NullOnly(data) == ~(Truthy(data.sku) \/ Truthy(data.epc) \/ Truthy(data.location))

\* str(location).upper().startswith("IN")
InBagLocation(loc) == loc \in {"IN_SCAN_AREA", "in_bag", "Inside"}

Last(q) == q[Len(q)]

Abs(x) == IF x < 0 THEN -x ELSE x

\* 1) scan avoidance, with the RFID bonus
ScanAvoidanceStrict(s) ==
  IF s.vision = <<>> THEN <<>>
  ELSE
    LET v == Last(s.vision)
        seen_in_pos == \E i \in 1..Len(s.pos) : s.pos[i].sku = v.predicted_product
        in_bag == \E i \in 1..Len(s.rfid) :
                    /\ s.rfid[i].sku = v.predicted_product
                    /\ InBagLocation(s.rfid[i].location)
    IN  IF Truthy(v.predicted_product) /\ v.accuracy > VISION_CONF /\ ~seen_in_pos
          THEN <<[points |-> SCAN_AVOIDANCE,
                  text |-> <<"Vision ", v.predicted_product, "@", ToString(v.accuracy), " not in POS">>]>>
               \o (IF in_bag
                     THEN <<[points |-> RFID_IN_BAG,
                             text |-> <<"RFID in scan/bag area for vision SKU">>]>>
                     ELSE <<>>)
          ELSE <<>>

ScanAvoidance(s) ==
  IF s.vision = <<>> THEN <<>>
  ELSE
    LET v == Last(s.vision)
        seen_in_pos == \E i \in 1..Len(s.pos) : s.pos[i].sku = v.predicted_product
        in_bag == \E i \in 1..Len(s.rfid) :
                    /\ s.rfid[i].sku = v.predicted_product
                    /\ InBagLocation(s.rfid[i].location)
    IN  IF Truthy(v.predicted_product) /\ v.accuracy >= VISION_CONF /\ ~seen_in_pos
          THEN <<[points |-> SCAN_AVOIDANCE,
                  text |-> <<"Vision ", v.predicted_product, "@", ToString(v.accuracy), " not in POS">>]>>
               \o (IF in_bag
                     THEN <<[points |-> RFID_IN_BAG,
                             text |-> <<"RFID in scan/bag area for vision SKU">>]>>
                     ELSE <<>>)
          ELSE <<>>

\* 2) barcode switching
BarcodeSwitchingOldest(s) ==
  IF s.vision = <<>> \/ s.pos = <<>> THEN <<>>
  ELSE
    LET v == Last(s.vision)
        p == Head(s.pos)
    IN  IF Truthy(v.predicted_product) /\ Truthy(p.sku) /\ v.predicted_product /= p.sku
          THEN <<[points |-> BARCODE_SWITCH,
                  text |-> <<"Vision ", v.predicted_product, " /= POS ", p.sku>>]>>
          ELSE <<>>

BarcodeSwitching(s) ==
  IF s.vision = <<>> \/ s.pos = <<>> THEN <<>>
  ELSE
    LET v == Last(s.vision)
        p == Last(s.pos)
    IN  IF Truthy(v.predicted_product) /\ Truthy(p.sku) /\ v.predicted_product /= p.sku
          THEN <<[points |-> BARCODE_SWITCH,
                  text |-> <<"Vision ", v.predicted_product, " /= POS ", p.sku>>]>>
          ELSE <<>>

\* 3) weight discrepancy; a KeyError of p["sku"] is swallowed
WeightDiscrepancy(s) ==
  IF s.pos = <<>> THEN <<>>
  ELSE
    LET p == Last(s.pos)
    IN  IF p.weight_g = <<>> THEN <<>>
        ELSE
          LET observed == p.weight_g[1]
              attached == p.expected_weight /= <<>> /\ p.expected_weight[1] /= 0
              key_error == ~attached /\ p.sku = MISSING
              table == IF p.sku = MISSING THEN <<>> ELSE WeightsGet(p.sku)
              expected == IF attached THEN p.expected_weight[1]
                          ELSE IF table /= <<>> /\ table[1] /= 0 THEN table[1]
                          ELSE observed
          IN  IF ~key_error /\ 100 * Abs(observed - expected) > WEIGHT_TOL_PCT * expected
                THEN <<[points |-> WEIGHT_DELTA,
                        text |-> <<"Weight delta ", ToString(observed - expected),
                                   "g (obs=", ToString(observed), ", exp=", ToString(expected), ")">>]>>
                ELSE <<>>

\* 4) queue bump
QueuePressure(s) ==
  LET q == s.queue
      cc == IF q.customer_count = <<>> THEN 0 ELSE q.customer_count[1]
      dt == IF q.average_dwell_time = <<>> THEN 0 ELSE q.average_dwell_time[1]
  IN  IF cc >= QUEUE_CUSTOMERS \/ dt >= QUEUE_DWELL
        THEN <<[points |-> QUEUE_BUMP, text |-> <<"High queue pressure">>]>>
        ELSE <<>>

\* float(None) at a null accuracy and None >= 6 at a null queue field raise
\* TypeError, before compute stores anything.
ComputeRaises(s) ==
  \/ /\ s.vision /= <<>>
     /\ Truthy(Last(s.vision).predicted_product)
     /\ "accuracy" \in Last(s.vision).nulls
  \/ LET q == s.queue
         cc == IF q.customer_count = <<>> THEN 0 ELSE q.customer_count[1]
     IN  \/ "customer_count" \in q.nulls
         \/ cc < QUEUE_CUSTOMERS /\ "average_dwell_time" \in q.nulls

RECURSIVE Points(_)
Points(fired) == IF fired = <<>> THEN 0 ELSE Head(fired).points + Points(Tail(fired))

\* max(0.0, min(1.0, score))
ClampBelowOnly(x) == IF x < 0 THEN 0 ELSE x

Clamp(x) == IF x < 0 THEN 0 ELSE IF x > 100 THEN 100 ELSE x

\* What compute returns for a station in state s.
Scored(s) ==
  LET fired == ScanAvoidance(s) \o BarcodeSwitching(s) \o WeightDiscrepancy(s) \o QueuePressure(s)
  IN  [score |-> Clamp(Points(fired)),
       reasons |-> [i \in 1..Len(fired) |-> fired[i].text]]

\* What a call hands back: None, a value, or an exception.
None == [raised |-> "", value |-> <<>>]

Returned(v) == [raised |-> "", value |-> <<v>>]

Raised(e) == [raised |-> e, value |-> <<>>]

\* The state map S after each call, for a caller that makes several calls
\* in one step.  Station(S, st) is what _get answers in S.
Station(S, st) == [S[st] EXCEPT !.present = TRUE]

PosPushed(S, st, data) ==
  [S EXCEPT ![st] = [Station(S, st) EXCEPT
                       !.pos = AppendBounded(@, WithExpectedWeight(data), POS_CAP)]]

RfidPushed(S, st, data) ==
  IF NullOnly(data) THEN S
  ELSE [S EXCEPT ![st] = [Station(S, st) EXCEPT !.rfid = AppendBounded(@, data, RFID_CAP)]]

VisionPushed(S, st, data) ==
  IF ~Truthy(data.predicted_product) THEN S
  ELSE [S EXCEPT ![st] = [Station(S, st) EXCEPT !.vision = AppendBounded(@, data, VISION_CAP)]]

QueueSet(S, st, q) == [S EXCEPT ![st] = [Station(S, st) EXCEPT !.queue = q]]

Computed(S, st) ==
  LET s == Station(S, st)
      r == Scored(s)
  IN  IF ComputeRaises(s) THEN [S EXCEPT ![st] = s]
      ELSE [S EXCEPT ![st] = [s EXCEPT !.score = r.score, !.reasons = r.reasons]]

\* The log of stored records after a push.
PosAccepted(A, st, data) == [A EXCEPT ![st].pos = Append(@, WithExpectedWeight(data))]

RfidAccepted(A, st, data) ==
  IF NullOnly(data) THEN A ELSE [A EXCEPT ![st].rfid = Append(@, data)]

VisionAccepted(A, st, data) ==
  IF ~Truthy(data.predicted_product) THEN A ELSE [A EXCEPT ![st].vision = Append(@, data)]

push_pos(st, data) ==
  /\ state' = PosPushed(state, st, data)
  /\ accepted' = PosAccepted(accepted, st, data)
  /\ result' = None

push_rfid(st, data) ==
  /\ state' = RfidPushed(state, st, data)
  /\ accepted' = RfidAccepted(accepted, st, data)
  /\ result' = None

push_vision(st, data) ==
  /\ state' = VisionPushed(state, st, data)
  /\ accepted' = VisionAccepted(accepted, st, data)
  /\ result' = None

set_queue(st, q) ==
  /\ state' = QueueSet(state, st, q)
  /\ result' = None
  /\ UNCHANGED accepted

\* compute with the running score starting from the stored one.
computeAccumulating(st) ==
  LET s == _get(st)
      r == Scored(s)
      merged == [score |-> Clamp(s.score + r.score), reasons |-> s.reasons \o r.reasons]
  IN  /\ state' = [state EXCEPT ![st] = [s EXCEPT !.score = merged.score, !.reasons = merged.reasons]]
      /\ result' = Returned(merged)
      /\ UNCHANGED accepted

compute(st) ==
  /\ state' = Computed(state, st)
  /\ result' = IF ComputeRaises(_get(st)) THEN Raised("TypeError") ELSE Returned(Scored(_get(st)))
  /\ UNCHANGED accepted

NoFusion ==
  /\ state = [st \in Stations |-> NoStation]
  /\ accepted = [st \in Stations |-> [pos |-> <<>>, rfid |-> <<>>, vision |-> <<>>]]
  /\ last_call = [op |-> "none", st |-> "", data |-> <<>>, again |-> FALSE]
  /\ calls = 0
  /\ result = None

\* Before a Mapper, a consumer or a reader exists.
NoMapper ==
  /\ _counter = 0
  /\ _fh = <<>>

NoConsumer ==
  /\ incoming = <<>>
  /\ ending = "closed"
  /\ frames = 0
  /\ consumer = "idle"

NoReader ==
  /\ stream = <<>>
  /\ recvs = <<>>
  /\ buff = <<>>
  /\ lines = <<>>
  /\ reader = "idle"

NoClient == NoMapper /\ NoConsumer /\ NoReader


\* ---------------------------------------------------------------- merger
\* The files a loader can return: payloads in file order, each with its
\* timestamp string and rec, the rest of the JSON object (here its position
\* in the file, which tells the records of one file apart).
DatasetFile(ts) == [i \in 1..Len(ts) |-> [timestamp |-> ts[i], rec |-> i]]

\* The two paths' files holding the records stamped ts, the first k of them
\* in the first file.
InputFiles(ts, k) ==
  <<DatasetFile(SubSeq(ts, 1, k)), DatasetFile(SubSeq(ts, k + 1, Len(ts)))>>

RECURSIVE Concat(_)
Concat(ss) == IF ss = <<>> THEN <<>> ELSE Head(ss) \o Concat(Tail(ss))

\* The all_events list before the sort.
Tagged(files) ==
  Concat([p \in 1..Len(files) |->
            [i \in 1..Len(files[p]) |->
               [dataset |-> FILENAME_TO_CANONICAL(Paths[p]),
                timestamp |-> fromisoformat(files[p][i].timestamp),
                payload |-> files[p][i]]]])

\* list.sort(key=...) is stable: an item goes after every item whose key is
\* not larger.
InsertUnstable(sorted, x) ==
  LET before == {i \in 1..Len(sorted) : Instant(sorted[i].timestamp) < Instant(x.timestamp)}
      n == Cardinality(before)
  IN  SubSeq(sorted, 1, n) \o <<x>> \o SubSeq(sorted, n + 1, Len(sorted))

Insert(sorted, x) ==
  LET before == {i \in 1..Len(sorted) : Instant(sorted[i].timestamp) <= Instant(x.timestamp)}
      n == Cardinality(before)
  IN  SubSeq(sorted, 1, n) \o <<x>> \o SubSeq(sorted, n + 1, Len(sorted))

RECURSIVE SortByTimestamp(_)
SortByTimestamp(s) ==
  IF s = <<>> THEN <<>>
  ELSE Insert(SortByTimestamp(SubSeq(s, 1, Len(s) - 1)), s[Len(s)])

collect_events(files) ==
  LET payloads == Concat(files)
      all_events == Tagged(files)
  IN  IF \E i \in 1..Len(payloads) : ~payloads[i].timestamp.valid
        THEN [status |-> "ValueError", events |-> <<>>, dataset_names |-> <<>>]
      ELSE IF all_events = <<>>
        THEN [status |-> "ValueError", events |-> <<>>, dataset_names |-> <<>>]
      ELSE IF \E i, j \in 1..Len(all_events) :
                all_events[i].timestamp.aware /= all_events[j].timestamp.aware
        THEN [status |-> "TypeError", events |-> <<>>, dataset_names |-> <<>>]
      ELSE [status |-> "ok",
            events |-> SortByTimestamp(all_events),
            dataset_names |-> [p \in 1..Len(files) |-> FILENAME_TO_CANONICAL(Paths[p])]]

\* ----------------------------------------------------------- start_server
Min(S) == CHOOSE x \in S : \A y \in S : x <= y

PositiveGaps(evs) ==
  LET gaps == {DtSub(evs[i + 1].timestamp, evs[i].timestamp) : i \in 1..(Len(evs) - 1)}
  IN  {g \in gaps : g > 0}

min_gap(evs) ==
  IF PositiveGaps(evs) = {} THEN TicksPerSecond ELSE Min(PositiveGaps(evs))

CycleSpanNoGap(evs) ==
  LET span == DtSub(evs[Len(evs)].timestamp, evs[1].timestamp)
  IN  IF span <= 0 THEN TicksPerSecond ELSE span

CycleSpan(evs) ==
  LET span == DtSub(evs[Len(evs)].timestamp, evs[1].timestamp) + min_gap(evs)
  IN  IF span <= 0 THEN TicksPerSecond ELSE span

Conns == 1..MaxConns

IdleConns ==
  /\ pc = [c \in Conns |-> "idle"]
  /\ loop_index = [c \in Conns |-> 0]
  /\ prev = [c \in Conns |-> <<>>]
  /\ sequence = [c \in Conns |-> 1]
  /\ idx = [c \in Conns |-> 1]
  /\ sent = [c \in Conns |-> <<>>]
  /\ slept = [c \in Conns |-> <<>>]
  /\ disconnected = [c \in Conns |-> FALSE]

StartServer ==
  /\ main = "init"
  /\ LET r == collect_events(inputs)
     IN  /\ main' = IF r.status = "ok" THEN "serving" ELSE r.status
         /\ events' = r.events
         /\ dataset_names' = r.dataset_names
         /\ cycle_span' = IF r.status = "ok" THEN CycleSpan(r.events) ELSE 0
  /\ UNCHANGED <<inputs, speed, loop, connVars, fusionVars, clientVars>>

\* SPEED = 25.0 and LOOP = False, the defaults of main.
DefaultSpeed == [num |-> 25, den |-> 1]

InitMerge ==
  /\ \E n \in 0..MaxMergeEvents : \E ts \in [1..n -> MergeTimestamps] : \E k \in 0..n :
        inputs = InputFiles(ts, k)
  /\ speed = DefaultSpeed
  /\ loop = FALSE
  /\ main = "init"
  /\ events = <<>>
  /\ dataset_names = <<>>
  /\ cycle_span = 0
  /\ IdleConns
  /\ NoFusion
  /\ NoClient

NextMerge == StartServer

SpecMerge == InitMerge /\ [][NextMerge]_vars

\* --------------------------------------- EventStreamRequestHandler.handle
\* The speed factors tried: none (0), half speed and double speed.
Speeds == {[num |-> 0, den |-> 1], [num |-> 1, den |-> 2], [num |-> 2, den |-> 1]}

\* A time.sleep argument is kept as a count of 1 / SleepDen(speed) seconds.
SleepDen(s) == IF s.num > 0 THEN 10 * TicksPerSecond * s.num ELSE 10

\* 0.1 / max(1.0, server.speed)
MinimumGap(s) ==
  IF s.num <= 0 THEN 1
  ELSE IF s.num >= s.den THEN TicksPerSecond * s.den
  ELSE TicksPerSecond * s.num

\* The gap slept before a record delta ticks after the previous one.
GapNoFloor(delta, s) ==
  IF s.num > 0 THEN 10 * delta * s.den ELSE 0

Gap(delta, s) ==
  LET gap == IF s.num > 0 THEN 10 * delta * s.den ELSE 0
  IN  IF gap <= 0 THEN MinimumGap(s) ELSE gap

\* record["timestamp"] + (server.cycle_span * loop_index)
AdjustedNoShift(record, span, k) == record.timestamp

Adjusted(record, span, k) == DtAdd(record.timestamp, span * k)

Banner ==
  [service |-> "project-sentinel-event-stream",
   datasets |-> dataset_names,
   events |-> Len(events),
   loop |-> loop,
   speed_factor |-> speed,
   cycle_seconds |-> [num |-> cycle_span, den |-> TicksPerSecond],
   schema |-> "newline-delimited JSON objects"]

Frame(record, seq, adjusted) ==
  [dataset |-> record.dataset,
   sequence |-> seq,
   timestamp |-> isoformat(adjusted),
   original_timestamp |-> record.payload.timestamp,
   event |-> [record.payload EXCEPT !.timestamp = isoformat(adjusted)]]

\* What a sendall can do: deliver the message, or raise because the peer
\* broke or reset the connection.
SendOutcomes == {"ok", "BrokenPipeError", "ConnectionResetError"}

\* serve_forever accepts the next connection and starts its handler thread.
Accept(c) ==
  /\ main = "serving"
  /\ pc[c] = "idle"
  /\ \A d \in Conns : d < c => pc[d] /= "idle"
  /\ pc' = [pc EXCEPT ![c] = "banner"]
  /\ UNCHANGED <<fusionVars, clientVars, serverVars, loop_index, prev, sequence, idx, sent, slept, disconnected>>

\* The banner's sendall stands before the try: its error leaves handle.
SendBanner(c) ==
  /\ pc[c] = "banner"
  /\ \E outcome \in SendOutcomes :
       IF outcome = "ok"
         THEN /\ sent' = [sent EXCEPT ![c] = Append(@, Banner)]
              /\ loop_index' = [loop_index EXCEPT ![c] = 0]
              /\ prev' = [prev EXCEPT ![c] = <<>>]
              /\ sequence' = [sequence EXCEPT ![c] = 1]
              /\ idx' = [idx EXCEPT ![c] = 1]
              /\ pc' = [pc EXCEPT ![c] = "loop"]
              /\ UNCHANGED disconnected
         ELSE /\ disconnected' = [disconnected EXCEPT ![c] = TRUE]
              /\ pc' = [pc EXCEPT ![c] = "raised"]
              /\ UNCHANGED <<sent, loop_index, prev, sequence, idx>>
  /\ UNCHANGED <<fusionVars, clientVars, serverVars, slept>>

NextSequenceReset(seq, i) == IF i = Len(events) THEN 1 ELSE seq + 1

NextSequence(seq, i) == seq + 1

\* Iterate with the sequence counter kept on the server, shared by all
\* handler threads.
IterateSharedSequence(c) ==
  /\ pc[c] = "loop"
  /\ idx[c] <= Len(events)
  /\ LET record == events[idx[c]]
         adjusted == Adjusted(record, cycle_span, loop_index[c])
     IN  /\ slept' = IF prev[c] /= <<>>
                       THEN [slept EXCEPT ![c] = Append(@, Gap(DtSub(adjusted, prev[c][1]), speed))]
                       ELSE slept
         /\ prev' = [prev EXCEPT ![c] = <<adjusted>>]
         /\ \E outcome \in SendOutcomes :
              IF outcome = "ok"
                THEN /\ sent' = [sent EXCEPT ![c] = Append(@, Frame(record, sequence[c], adjusted))]
                     /\ sequence' = [d \in Conns |-> sequence[c] + 1]
                     /\ idx' = [idx EXCEPT ![c] = @ + 1]
                     /\ UNCHANGED <<pc, disconnected>>
                ELSE /\ disconnected' = [disconnected EXCEPT ![c] = TRUE]
                     /\ pc' = [pc EXCEPT ![c] = "returned"]
                     /\ UNCHANGED <<sent, sequence, idx>>
  /\ UNCHANGED <<fusionVars, clientVars, serverVars, loop_index>>

\* One pass of the for loop's body: pace, build the frame, send it.
Iterate(c) ==
  /\ pc[c] = "loop"
  /\ idx[c] <= Len(events)
  /\ LET record == events[idx[c]]
         adjusted == Adjusted(record, cycle_span, loop_index[c])
     IN  /\ slept' = IF prev[c] /= <<>>
                       THEN [slept EXCEPT ![c] = Append(@, Gap(DtSub(adjusted, prev[c][1]), speed))]
                       ELSE slept
         /\ prev' = [prev EXCEPT ![c] = <<adjusted>>]
         /\ \E outcome \in SendOutcomes :
              IF outcome = "ok"
                THEN /\ sent' = [sent EXCEPT ![c] = Append(@, Frame(record, sequence[c], adjusted))]
                     /\ sequence' = [sequence EXCEPT ![c] = NextSequence(@, idx[c])]
                     /\ idx' = [idx EXCEPT ![c] = @ + 1]
                     /\ UNCHANGED <<pc, disconnected>>
                ELSE /\ disconnected' = [disconnected EXCEPT ![c] = TRUE]
                     /\ pc' = [pc EXCEPT ![c] = "returned"]
                     /\ UNCHANGED <<sent, sequence, idx>>
  /\ UNCHANGED <<fusionVars, clientVars, serverVars, loop_index>>

\* EndCycle with the test of server.loop dropped: it always breaks.
EndCycleAlwaysBreak(c) ==
  /\ pc[c] = "loop"
  /\ idx[c] = Len(events) + 1
  /\ pc' = [pc EXCEPT ![c] = "returned"]
  /\ UNCHANGED <<fusionVars, clientVars, serverVars, loop_index, idx, prev, sequence, sent, slept, disconnected>>

\* After the for loop: leave the while loop, or roll into the next cycle.
EndCycle(c) ==
  /\ pc[c] = "loop"
  /\ idx[c] = Len(events) + 1
  /\ IF ~loop
       THEN /\ pc' = [pc EXCEPT ![c] = "returned"]
            /\ UNCHANGED <<loop_index, idx>>
       ELSE /\ loop_index[c] < MaxCycles
            /\ loop_index' = [loop_index EXCEPT ![c] = @ + 1]
            /\ idx' = [idx EXCEPT ![c] = 1]
            /\ UNCHANGED pc
  /\ UNCHANGED <<fusionVars, clientVars, serverVars, prev, sequence, sent, slept, disconnected>>

Handle(c) == SendBanner(c) \/ Iterate(c) \/ EndCycle(c)

InitServerVars(raws, maxEvents) ==
  /\ \E n \in 0..maxEvents : \E ts \in [1..n -> raws] : \E k \in 0..n :
        inputs = InputFiles(ts, k)
  /\ speed \in Speeds
  /\ loop \in BOOLEAN
  /\ main = "init"
  /\ events = <<>>
  /\ dataset_names = <<>>
  /\ cycle_span = 0

\* One replay session: the server and its first connection.
InitReplay == InitServerVars(ReplayTimestamps, MaxEvents) /\ IdleConns /\ NoFusion /\ NoClient

NextReplay ==
  \/ StartServer
  \/ Accept(1)
  \/ SendBanner(1)
  \/ Iterate(1)
  \/ EndCycle(1)

SpecReplay == InitReplay /\ [][NextReplay]_vars

\* The handler thread, once started, keeps being scheduled: a sleep ends and
\* a sendall returns or raises.
FairReplay == SpecReplay /\ WF_vars(Handle(1))

\* The server with its connections served concurrently, one thread each.
InitServer == InitServerVars(ServerTimestamps, MaxServerEvents) /\ IdleConns /\ NoFusion /\ NoClient

NextServer ==
  \/ StartServer
  \/ \E c \in Conns : Accept(c)
  \/ \E c \in Conns : SendBanner(c)
  \/ \E c \in Conns : Iterate(c)
  \/ \E c \in Conns : EndCycle(c)

SpecServer == InitServer /\ [][NextServer]_vars

\* ------------------------------------------------ the engine's callers
\* The records a caller hands to the engine.  rec stands for the rest of the
\* JSON object, which the engine never reads.
PosRecord(sku, weight, n) ==
  [sku |-> sku, weight_g |-> weight, expected_weight |-> <<>>, customer_id |-> "C1", rec |-> n]

RfidRecord(sku, epc, location, n) ==
  [sku |-> sku, epc |-> epc, location |-> location, rec |-> n]

VisionRecord(product, accuracy, n) ==
  [predicted_product |-> product, accuracy |-> accuracy, nulls |-> {}, rec |-> n]

QueueSnapshot(cc, dt) == [customer_count |-> cc, average_dwell_time |-> dt, nulls |-> {}]

PosInputs ==
  {PosRecord(sku, w, 0) : sku \in {NULL, "PRD_A", "PRD_X"}, w \in {<<>>, <<500>>}}

RfidInputs ==
  {RfidRecord(NULL, NULL, NULL, 0), RfidRecord(MISSING, MISSING, MISSING, 0),
   RfidRecord("PRD_X", "EPC1", "IN_SCAN_AREA", 0), RfidRecord("PRD_X", NULL, "OUT", 0),
   RfidRecord(NULL, NULL, "in_bag", 0)}

VisionInputs ==
  {VisionRecord(NULL, 90, 0), VisionRecord("PRD_X", 90, 0), VisionRecord("PRD_A", 50, 0)}

QueueInputs ==
  {QueueSnapshot(<<>>, <<>>), QueueSnapshot(<<6>>, <<>>), QueueSnapshot(<<2>>, <<120>>)}

\* A call of the engine: what it does, and the record of the call.
Call(op, st, data) ==
  /\ calls < MaxCalls
  /\ last_call' = [op |-> op, st |-> st, data |-> data,
                   again |-> (last_call.op = op /\ last_call.st = st)]
  /\ calls' = calls + 1
  /\ UNCHANGED <<serverVars, connVars, clientVars>>

PushPos == \E st \in Stations, d \in PosInputs : push_pos(st, d) /\ Call("push_pos", st, <<d>>)

PushRfid == \E st \in Stations, d \in RfidInputs : push_rfid(st, d) /\ Call("push_rfid", st, <<d>>)

PushVision == \E st \in Stations, d \in VisionInputs : push_vision(st, d) /\ Call("push_vision", st, <<d>>)

SetQueue == \E st \in Stations, q \in QueueInputs : set_queue(st, q) /\ Call("set_queue", st, <<q>>)

Compute == \E st \in Stations : compute(st) /\ Call("compute", st, <<>>)

InitFusion ==
  /\ inputs = <<>>
  /\ speed = DefaultSpeed
  /\ loop = FALSE
  /\ main = "init"
  /\ events = <<>>
  /\ dataset_names = <<>>
  /\ cycle_span = 0
  /\ IdleConns
  /\ NoFusion
  /\ NoClient

NextFusion == PushPos \/ PushRfid \/ PushVision \/ SetQueue \/ Compute

SpecFusion == InitFusion /\ [][NextFusion]_vars

\* One station fed until its buffers overflow.  The n-th record a buffer is
\* handed carries rec = n.
Arrivals(st) == Len(accepted[st].pos) + Len(accepted[st].rfid) + Len(accepted[st].vision)

\* A call that may store a record, while the station has room in the model.
Fill(st) ==
  /\ Arrivals(st) < MaxArrivals
  /\ UNCHANGED <<serverVars, connVars, clientVars, last_call, calls>>

Touch == UNCHANGED <<serverVars, connVars, clientVars, last_call, calls>>

BufferStation == "SCC1"

FillPos ==
  LET d == PosRecord("PRD_A", <<500>>, Len(accepted[BufferStation].pos) + 1)
  IN  push_pos(BufferStation, d) /\ Fill(BufferStation)

FillRfid ==
  \E d \in {RfidRecord(NULL, NULL, NULL, 0),
            RfidRecord("PRD_X", "EPC1", "IN_SCAN_AREA", Len(accepted[BufferStation].rfid) + 1)} :
    push_rfid(BufferStation, d) /\ Fill(BufferStation)

FillVision ==
  \E d \in {VisionRecord(NULL, 90, 0),
            VisionRecord("PRD_X", 90, Len(accepted[BufferStation].vision) + 1)} :
    push_vision(BufferStation, d) /\ Fill(BufferStation)

FillQueue ==
  \E q \in {QueueSnapshot(<<6>>, <<>>)} :
    set_queue(BufferStation, q) /\ Touch

FillCompute == compute(BufferStation) /\ Touch

NextBuffers == FillPos \/ FillRfid \/ FillVision \/ FillQueue \/ FillCompute

SpecBuffers == InitFusion /\ [][NextBuffers]_vars

\* One station scored on records that meet every branch of compute.
ScoreStation == "SCC1"

ScorePosInputs ==
  {PosRecord("PRD_A", <<500>>, 0), PosRecord("PRD_B", <<500>>, 0),
   PosRecord("PRD_X", <<500>>, 0), PosRecord("PRD_X", <<-5>>, 0),
   PosRecord(NULL, <<>>, 0), PosRecord(MISSING, <<500>>, 0)}

ScoreRfidInputs ==
  {RfidRecord(NULL, NULL, NULL, 0), RfidRecord("PRD_X", "EPC1", "IN_SCAN_AREA", 0),
   RfidRecord("PRD_X", NULL, "OUT", 0), RfidRecord("PRD_A", "EPC2", "in_bag", 0)}

ScoreVisionInputs ==
  {VisionRecord(NULL, 90, 0), VisionRecord("PRD_X", 85, 0), VisionRecord("PRD_X", 84, 0),
   VisionRecord("PRD_A", 90, 0), [VisionRecord("PRD_X", 0, 0) EXCEPT !.nulls = {"accuracy"}]}

ScoreQueueInputs ==
  {QueueSnapshot(<<>>, <<>>), QueueSnapshot(<<6>>, <<>>), QueueSnapshot(<<5>>, <<120>>),
   QueueSnapshot(<<5>>, <<119>>), [QueueSnapshot(<<>>, <<>>) EXCEPT !.nulls = {"customer_count"}]}

\* A call of the engine on the scored station, recorded without a count.
ScoreCall(op, data) ==
  /\ last_call' = [op |-> op, st |-> ScoreStation, data |-> data, again |-> FALSE]
  /\ UNCHANGED <<serverVars, connVars, clientVars, calls>>

ScorePos ==
  \E d \in ScorePosInputs :
    /\ Arrivals(ScoreStation) < MaxRecords
    /\ push_pos(ScoreStation, d) /\ ScoreCall("push_pos", <<d>>)

ScoreRfid ==
  \E d \in ScoreRfidInputs :
    /\ Arrivals(ScoreStation) < MaxRecords
    /\ push_rfid(ScoreStation, d) /\ ScoreCall("push_rfid", <<d>>)

ScoreVision ==
  \E d \in ScoreVisionInputs :
    /\ Arrivals(ScoreStation) < MaxRecords
    /\ push_vision(ScoreStation, d) /\ ScoreCall("push_vision", <<d>>)

ScoreQueue ==
  \E q \in ScoreQueueInputs : set_queue(ScoreStation, q) /\ ScoreCall("set_queue", <<q>>)

ScoreCompute == compute(ScoreStation) /\ ScoreCall("compute", <<>>)

NextScore == ScorePos \/ ScoreRfid \/ ScoreVision \/ ScoreQueue \/ ScoreCompute

SpecScore == InitFusion /\ [][NextScore]_vars

\* ---------------------------------------------------------------- Mapper
\* A payload is written without its timestamp, which iso_now() reads off the
\* wall clock.
RECURSIVE Digits(_)
Digits(n) == IF n < 10 THEN <<n>> ELSE Digits(n \div 10) \o <<n % 10>>

\* f"{n:03d}": the decimal digits of n, with zeros in front up to three.
ZeroPadded(n) ==
  LET d == Digits(n)
  IN  IF Len(d) >= 3 THEN d ELSE [i \in 1..(3 - Len(d)) |-> 0] \o d

\* The identifier _next_id mints at a counter value.
EventId(n) == [prefix |-> "E", digits |-> ZeroPadded(n)]

\* _next_id without the increment.
_next_idStuck(n) == [eid |-> EventId(n), counter |-> n]

\* _next_id: the identifier and the counter it leaves.
_next_id(n) == [eid |-> EventId(n), counter |-> n + 1]

\* One _write(payload) per event of evs, each with the identifier _next_id
\* hands out at that point.
RECURSIVE Stamped(_, _)
Stamped(evs, n) ==
  IF evs = <<>> THEN [written |-> <<>>, counter |-> n]
  ELSE LET id == _next_id(n)
           rest == Stamped(Tail(evs), id.counter)
       IN  [written |-> <<[event_id |-> id.eid, event_data |-> Head(evs)]>> \o rest.written,
            counter |-> rest.counter]

_write(evs) ==
  /\ _fh' = _fh \o Stamped(evs, _counter).written
  /\ _counter' = Stamped(evs, _counter).counter

\* r.startswith(prefix), for the openings compute gives its reasons.
StartsWith(text, prefix) == Len(text) > 0 /\ text[1] = prefix

\* pattern in r: some piece of the reason holds the pattern.  The test is on
\* the whole text, so a product name or SKU that compute copied into the
\* reason counts as well as the words compute wrote itself: "not in POS" is
\* in the closing of the scan-avoidance reason and in the SKU "x not in POS",
\* "/= POS" in the middle of the barcode reason and in the product name
\* "X /= POS".
Holds(text, pattern) ==
  \E i \in 1..Len(text) :
    \/ pattern = "not in POS" /\ text[i] \in {" not in POS", "x not in POS"}
    \/ pattern = "/= POS" /\ text[i] \in {" /= POS ", "X /= POS"}

\* The names the pattern (PRD_[A-Z]_\d+|PRD_\w+) matches in full.
PrdNames == {"PRD_A", "PRD_B", "PRD_X"}

\* _parse_sku: the first match in the reason, else None.
_parse_sku(text) ==
  IF \E i \in 1..Len(text) : text[i] \in PrdNames
    THEN text[CHOOSE i \in 1..Len(text) :
                /\ text[i] \in PrdNames
                /\ \A j \in 1..(i - 1) : text[j] \notin PrdNames]
    ELSE NULL

\* last_pos.get(key) if last_pos else None; last_pos is <<>> for None.
PosField(last_pos, key) ==
  IF last_pos = <<>> THEN NULL
  ELSE CASE key = "customer_id" -> last_pos[1].customer_id
         [] key = "sku" -> (IF last_pos[1].sku = MISSING THEN NULL ELSE last_pos[1].sku)

PosNumber(last_pos, key) ==
  IF last_pos = <<>> THEN <<>>
  ELSE CASE key = "expected_weight" -> last_pos[1].expected_weight
         [] key = "weight_g" -> last_pos[1].weight_g

\* The events from_fusion writes for one reason: the three tests are
\* independent ifs.
ReasonEvents(station_id, r, last_pos) ==
  (IF StartsWith(r, "Vision ") /\ Holds(r, "not in POS")
     THEN <<[event_name |-> "Scanner Avoidance", station_id |-> station_id,
             customer_id |-> PosField(last_pos, "customer_id"),
             product_sku |-> IF Truthy(PosField(last_pos, "sku"))
                               THEN PosField(last_pos, "sku") ELSE _parse_sku(r)]>>
     ELSE <<>>)
  \o
  (IF StartsWith(r, "Vision ") /\ Holds(r, "/= POS")
     THEN <<[event_name |-> "Barcode Switching", station_id |-> station_id,
             customer_id |-> PosField(last_pos, "customer_id"),
             actual_sku |-> _parse_sku(r),
             scanned_sku |-> PosField(last_pos, "sku")]>>
     ELSE <<>>)
  \o
  (IF StartsWith(r, "Weight delta ")
     THEN <<[event_name |-> "Weight Discrepancies", station_id |-> station_id,
             customer_id |-> PosField(last_pos, "customer_id"),
             product_sku |-> PosField(last_pos, "sku"),
             expected_weight |-> PosNumber(last_pos, "expected_weight"),
             actual_weight |-> PosNumber(last_pos, "weight_g")]>>
     ELSE <<>>)

FusionEvents(station_id, reasons, last_pos) ==
  Concat([i \in 1..Len(reasons) |-> ReasonEvents(station_id, reasons[i], last_pos)])

from_fusion(station_id, fusion_result, last_pos) ==
  _write(FusionEvents(station_id, fusion_result.reasons, last_pos))

\* re.search(r"(Crash|Read Error|Failure)", str(status), flags=re.IGNORECASE)
Statuses == {NULL, "Active", "Read Error", "System Crash", "failure"}

CrashStatus(status) == status \in {"Read Error", "System Crash", "failure"}

StatusEvents(station_id, status) ==
  IF Truthy(status) /\ CrashStatus(status)
    THEN <<[event_name |-> "Unexpected Systems Crash", station_id |-> station_id,
            duration_seconds |-> 0]>>
    ELSE <<>>

maybe_status(station_id, dataset_name, status) == _write(StatusEvents(station_id, status))

LONG_QUEUE == 6
LONG_WAIT == 120

\* bool(queue): the snapshot has a key.
NonEmpty(queue) ==
  queue.customer_count /= <<>> \/ queue.average_dwell_time /= <<>> \/ queue.nulls /= {}

\* queue.get(key) or 0
OrZero(n) == IF n = <<>> THEN 0 ELSE n[1]

\* from_queue with the threshold test cc > 6.
QueueEventsAboveSix(station_id, queue) ==
  IF ~NonEmpty(queue) THEN <<>>
  ELSE
    LET cc == OrZero(queue.customer_count)
        dt == OrZero(queue.average_dwell_time)
    IN  (IF cc > LONG_QUEUE
           THEN <<[event_name |-> "Long Queue Length", station_id |-> station_id,
                   num_of_customers |-> cc],
                  [event_name |-> "Staffing Needs", station_id |-> station_id,
                   Staff_type |-> "Cashier"],
                  [event_name |-> "Checkout Station Action", station_id |-> station_id,
                   Action |-> "Open"]>>
           ELSE <<>>)
        \o
        (IF dt >= LONG_WAIT
           THEN <<[event_name |-> "Long Wait Time", station_id |-> station_id,
                   wait_time_seconds |-> dt]>>
           ELSE <<>>)

QueueEvents(station_id, queue) ==
  IF ~NonEmpty(queue) THEN <<>>
  ELSE
    LET cc == OrZero(queue.customer_count)
        dt == OrZero(queue.average_dwell_time)
    IN  (IF cc >= LONG_QUEUE
           THEN <<[event_name |-> "Long Queue Length", station_id |-> station_id,
                   num_of_customers |-> cc],
                  [event_name |-> "Staffing Needs", station_id |-> station_id,
                   Staff_type |-> "Cashier"],
                  [event_name |-> "Checkout Station Action", station_id |-> station_id,
                   Action |-> "Open"]>>
           ELSE <<>>)
        \o
        (IF dt >= LONG_WAIT
           THEN <<[event_name |-> "Long Wait Time", station_id |-> station_id,
                   wait_time_seconds |-> dt]>>
           ELSE <<>>)

from_queue(station_id, queue) == _write(QueueEvents(station_id, queue))

\* FusionEngine.last_pos, <<>> for None.
last_pos(s) == IF s.pos = <<>> THEN <<>> ELSE <<Last(s.pos)>>

\* Station states whose results the mapper is handed: nothing fired; scan
\* avoidance with the RFID bonus and no POS record; scan avoidance, barcode
\* switching and weight discrepancy; queue pressure alone; a vision product
\* whose name holds the words of the barcode reason; a POS SKU that holds the
\* words of the scan-avoidance reason.
MapperStations ==
  {NoStation,
   [NoStation EXCEPT !.vision = <<VisionRecord("X /= POS", 90, 0)>>,
                     !.pos = <<WithExpectedWeight(PosRecord("PRD_A", <<500>>, 0))>>],
   [NoStation EXCEPT !.vision = <<VisionRecord("PRD_B", 50, 0)>>,
                     !.pos = <<WithExpectedWeight(PosRecord("x not in POS", <<>>, 0))>>],
   [NoStation EXCEPT !.vision = <<VisionRecord("PRD_X", 90, 0)>>,
                     !.rfid = <<RfidRecord("PRD_X", "EPC1", "IN_SCAN_AREA", 0)>>],
   [NoStation EXCEPT !.vision = <<VisionRecord("PRD_X", 90, 0)>>,
                     !.pos = <<WithExpectedWeight(PosRecord("PRD_A", <<500>>, 0))>>],
   [NoStation EXCEPT !.queue = QueueSnapshot(<<6>>, <<>>)]}

MapperQueueInputs ==
  {QueueSnapshot(<<>>, <<>>), QueueSnapshot(<<6>>, <<>>), QueueSnapshot(<<5>>, <<120>>),
   QueueSnapshot(<<7>>, <<120>>), QueueSnapshot(<<5>>, <<119>>),
   [QueueSnapshot(<<>>, <<120>>) EXCEPT !.nulls = {"customer_count"}]}

\* A call of the mapper, made while it has written fewer than MaxWritten
\* events.
MapperCall(op, st, data) ==
  /\ _counter < MaxWritten
  /\ last_call' = [op |-> op, st |-> st, data |-> data, again |-> FALSE]
  /\ UNCHANGED <<serverVars, connVars, consumerVars, readerVars, state, accepted, calls, result>>

FromFusion ==
  \E st \in Stations, s \in MapperStations :
    from_fusion(st, Scored(s), last_pos(s)) /\ MapperCall("from_fusion", st, <<s>>)

MaybeStatus ==
  \E st \in Stations, status \in Statuses :
    maybe_status(st, "POS_Transactions", status) /\ MapperCall("maybe_status", st, <<>>)

FromQueue ==
  \E st \in Stations, q \in MapperQueueInputs :
    from_queue(st, q) /\ MapperCall("from_queue", st, <<q>>)

NextMapper == FromFusion \/ MaybeStatus \/ FromQueue

SpecMapper == InitFusion /\ [][NextMapper]_vars

\* -------------------------------------------------------------- readlines
\* Bytes on the connection: the ASCII bytes of a letter, a space and a line
\* feed, and the two bytes of one two-byte UTF-8 character.
LF == "LF"
LEAD == "C3"
CONT == "A9"
Bytes == {"a", " ", LF, LEAD, CONT}

\* bytes.decode("utf-8", errors="ignore"): a lead byte with its continuation
\* byte is one character; a lead byte without one and a continuation byte
\* without a lead are dropped.
RECURSIVE decode(_)
decode(bytes) ==
  IF bytes = <<>> THEN <<>>
  ELSE IF Head(bytes) = LEAD
    THEN IF Len(bytes) >= 2 /\ bytes[2] = CONT
           THEN <<"e-acute">> \o decode(SubSeq(bytes, 3, Len(bytes)))
           ELSE decode(Tail(bytes))
  ELSE IF Head(bytes) = CONT THEN decode(Tail(bytes))
  ELSE <<Head(bytes)>> \o decode(Tail(bytes))

\* str.strip()
RECURSIVE strip(_)
strip(line) ==
  IF line = <<>> THEN <<>>
  ELSE IF Head(line) = " " THEN strip(Tail(line))
  ELSE IF line[Len(line)] = " " THEN strip(SubSeq(line, 1, Len(line) - 1))
  ELSE line

\* The while loop of readlines: the lines it yields from a buffer and the
\* buffer it is left with.
RECURSIVE SplitLines(_)
SplitLines(text) ==
  IF \A i \in 1..Len(text) : text[i] /= LF THEN [yielded |-> <<>>, buff |-> text]
  ELSE LET n == CHOOSE i \in 1..Len(text) : text[i] = LF /\ \A j \in 1..(i - 1) : text[j] /= LF
           line == SubSeq(text, 1, n - 1)
           rest == SplitLines(SubSeq(text, n + 1, Len(text)))
       IN  [yielded |-> (IF strip(line) /= <<>> THEN <<strip(line)>> ELSE <<>>) \o rest.yielded,
            buff |-> rest.buff]

\* The stream cut after the positions of cuts, as the chunks recv returns.
RECURSIVE Chunks(_, _)
Chunks(bytes, cuts) ==
  IF bytes = <<>> THEN <<>>
  ELSE IF cuts = {} THEN <<bytes>>
  ELSE LET c == CHOOSE x \in cuts : \A y \in cuts : x <= y
       IN  <<SubSeq(bytes, 1, c)>>
           \o Chunks(SubSeq(bytes, c + 1, Len(bytes)), {y - c : y \in cuts \ {c}})

\* recv returns the next chunk: a chunk that decodes to nothing ends the
\* loop like a closed connection.
Recv ==
  /\ reader = "reading"
  /\ recvs /= <<>>
  /\ LET chunk == decode(Head(recvs))
         split == SplitLines(buff \o chunk)
     IN  IF chunk = <<>>
           THEN /\ reader' = "stopped"
                /\ UNCHANGED <<buff, lines>>
           ELSE /\ buff' = split.buff
                /\ lines' = lines \o split.yielded
                /\ reader' = "reading"
  /\ recvs' = Tail(recvs)
  /\ UNCHANGED <<serverVars, connVars, fusionVars, mapperVars, consumerVars, stream>>

\* After the last chunk recv returns b"" when the peer has closed, and raises
\* socket.timeout when nothing arrives for ten seconds.
RecvEnd ==
  /\ reader = "reading"
  /\ recvs = <<>>
  /\ reader' = IF ending = "closed" THEN "stopped" ELSE "TimeoutError"
  /\ UNCHANGED <<serverVars, connVars, fusionVars, mapperVars, consumerVars,
                 stream, recvs, buff, lines>>

InitReader ==
  /\ inputs = <<>>
  /\ speed = DefaultSpeed
  /\ loop = FALSE
  /\ main = "init"
  /\ events = <<>>
  /\ dataset_names = <<>>
  /\ cycle_span = 0
  /\ IdleConns
  /\ NoFusion
  /\ NoMapper
  /\ incoming = <<>>
  /\ frames = 0
  /\ consumer = "idle"
  /\ \E n \in 0..MaxBytes : \E bytes \in [1..n -> Bytes] : \E cuts \in SUBSET (1..(n - 1)) :
       /\ stream = bytes
       /\ recvs = Chunks(bytes, cuts)
  /\ ending \in {"closed", "timeout"}
  /\ buff = <<>>
  /\ lines = <<>>
  /\ reader = "reading"

NextReader == Recv \/ RecvEnd

SpecReader == InitReader /\ [][NextReader]_vars

\* ----------------------------------------------------------- consume_once
\* A line readlines yields: text json.loads rejects with JSONDecodeError
\* ("invalid"), text nested deeper than the decoder's recursion limit, on
\* which json.loads raises RecursionError ("nested"), the banner object, a
\* frame object, or JSON that is not an object ("array").
NoEvent == [station_id |-> NULL, status |-> NULL, data |-> <<>>]

Line(json) == [json |-> json, dataset |-> NULL, event |-> NoEvent]

FrameLine(dataset, station_id, status, data) ==
  [json |-> "frame", dataset |-> dataset,
   event |-> [station_id |-> station_id, status |-> status, data |-> <<data>>]]

\* The branch a dataset name takes: the tests look for a substring of the
\* lower-cased name.
Branch(dataset) ==
  CASE dataset \in {"POS_Transactions", "pos_transactions"} -> "pos"
    [] dataset \in {"RFID_data", "rfid_readings"} -> "rfid"
    [] dataset \in {"Product_recognism", "product_recognition"} -> "vision"
    [] dataset \in {"Queue_monitor", "queue_monitoring"} -> "queue"
    [] dataset \in {"Current_inventory_data", "inventory_snapshots"} -> "inventory"
    [] OTHER -> "none"

\* What consume_once holds between two lines.
Config ==
  [state |-> state, accepted |-> accepted, result |-> result,
   _counter |-> _counter, _fh |-> _fh, frames |-> frames, consumer |-> consumer]

\* except json.JSONDecodeError: continue
OnJSONDecodeError(c) == c

\* push, compute, maybe_status, from_fusion: the POS and the vision branch.
\* An exception of compute leaves consume_once.
Scoring(c, pushed, logged, station, status) ==
  LET s == Station(pushed, station)
      after == Computed(pushed, station)
      out == Stamped(StatusEvents(station, status)
                     \o FusionEvents(station, Scored(s).reasons, last_pos(after[station])),
                     c._counter)
  IN  IF ComputeRaises(s)
        THEN [c EXCEPT !.state = after, !.accepted = logged,
                       !.result = Raised("TypeError"), !.consumer = "TypeError"]
        ELSE [c EXCEPT !.state = after, !.accepted = logged,
                       !.result = Returned(Scored(s)),
                       !._fh = @ \o out.written, !._counter = out.counter,
                       !.frames = @ + 1]

\* One pass of the for loop over a line.
Consumed(c, line) ==
  IF line.json = "invalid" THEN OnJSONDecodeError(c)
  ELSE IF line.json = "nested" THEN [c EXCEPT !.consumer = "RecursionError"]
  ELSE IF line.json = "banner" THEN c
  ELSE IF line.json = "array" THEN [c EXCEPT !.consumer = "AttributeError"]
  ELSE
    LET station == line.event.station_id
        data == line.event.data[1]
        branch == Branch(line.dataset)
    IN  CASE branch = "pos" ->
               Scoring(c, PosPushed(c.state, station, data),
                       PosAccepted(c.accepted, station, data), station, line.event.status)
          [] branch = "rfid" ->
               [c EXCEPT !.state = RfidPushed(@, station, data),
                         !.accepted = RfidAccepted(@, station, data),
                         !.result = None,
                         !.frames = @ + 1]
          [] branch = "vision" ->
               Scoring(c, VisionPushed(c.state, station, data),
                       VisionAccepted(c.accepted, station, data), station, line.event.status)
          [] branch = "queue" ->
               LET set == QueueSet(c.state, station, data)
                   out == Stamped(QueueEvents(station, set[station].queue), c._counter)
               IN  [c EXCEPT !.state = set, !.result = None,
                             !._fh = @ \o out.written, !._counter = out.counter,
                             !.frames = @ + 1]
          [] OTHER -> [c EXCEPT !.frames = @ + 1]

\* readlines yields the next line and the loop body runs on it.
ConsumeLine ==
  /\ consumer = "reading"
  /\ incoming /= <<>>
  /\ LET c == Consumed(Config, Head(incoming))
     IN  /\ state' = c.state
         /\ accepted' = c.accepted
         /\ result' = c.result
         /\ _counter' = c._counter
         /\ _fh' = c._fh
         /\ frames' = c.frames
         /\ consumer' = c.consumer
  /\ incoming' = Tail(incoming)
  /\ lines' = Append(lines, Head(incoming))
  /\ UNCHANGED <<serverVars, connVars, last_call, calls, ending, stream, recvs, buff, reader>>

\* After the last line recv returns b"" on a closed connection: readlines
\* returns, the loop ends and consume_once closes the socket.  When nothing
\* arrives for ten seconds recv raises socket.timeout, which neither
\* readlines nor consume_once catches.
ConsumeEnd ==
  /\ consumer = "reading"
  /\ incoming = <<>>
  /\ consumer' = IF ending = "closed" THEN "returned" ELSE "TimeoutError"
  /\ UNCHANGED <<serverVars, connVars, fusionVars, mapperVars, readerVars,
                 incoming, ending, frames>>

ConsumerLines ==
  {Line("invalid"), Line("nested"), Line("banner"), Line("array"),
   FrameLine("POS_Transactions", "SCC1", "Read Error", PosRecord("PRD_A", <<500>>, 0)),
   FrameLine("RFID_data", "SCC1", NULL, RfidRecord("PRD_X", "EPC1", "IN_SCAN_AREA", 0)),
   FrameLine("Product_recognism", "SCC1", "Active", VisionRecord("PRD_X", 90, 0)),
   FrameLine("Product_recognism", "SCC2", "Active",
             [VisionRecord("PRD_X", 0, 0) EXCEPT !.nulls = {"accuracy"}]),
   FrameLine("Queue_monitor", "SCC1", NULL, QueueSnapshot(<<6>>, <<120>>)),
   FrameLine("Current_inventory_data", "SCC1", NULL, QueueSnapshot(<<>>, <<>>))}

InitConsumer ==
  /\ inputs = <<>>
  /\ speed = DefaultSpeed
  /\ loop = FALSE
  /\ main = "init"
  /\ events = <<>>
  /\ dataset_names = <<>>
  /\ cycle_span = 0
  /\ IdleConns
  /\ NoFusion
  /\ NoMapper
  /\ NoReader
  /\ \E n \in 0..MaxLines : incoming \in [1..n -> ConsumerLines]
  /\ ending \in {"closed", "timeout"}
  /\ frames = 0
  /\ consumer = "reading"

NextConsumer == ConsumeLine \/ ConsumeEnd

SpecConsumer == InitConsumer /\ [][NextConsumer]_vars

\* ------------------------------------------- C1: the merger's output order
PathIndex(name) == CHOOSE p \in 1..Len(Paths) : FILENAME_TO_CANONICAL(Paths[p]) = name

\* e comes before f in the concatenated input: dataset order, then file order.
InputBefore(e, f) ==
  \/ PathIndex(e.dataset) < PathIndex(f.dataset)
  \/ /\ e.dataset = f.dataset
     /\ e.payload.rec < f.payload.rec

\* C1: whenever collect_events returns, the timestamps of the returned
\* sequence are non-decreasing, and two records with equal timestamps stand
\* in the order of the concatenated input.
C1_MergeSortedStable ==
  main = "serving" =>
    \A i, j \in 1..Len(events) :
      i < j =>
        /\ Instant(events[i].timestamp) <= Instant(events[j].timestamp)
        /\ Instant(events[i].timestamp) = Instant(events[j].timestamp)
             => InputBefore(events[i], events[j])

\* A merge of three records that had to reorder its input and holds a tie
\* between records of the two files.
C1_Witness ==
  /\ main = "serving"
  /\ Len(events) = 3
  /\ \E i, j \in 1..3 :
       /\ i < j
       /\ Instant(events[i].timestamp) = Instant(events[j].timestamp)
       /\ events[i].dataset /= events[j].dataset
       /\ events[i].timestamp /= events[j].timestamp
  /\ \E i, j \in 1..3 : i < j /\ InputBefore(events[j], events[i])

\* --------------------------------------------- C2..C5: one replay session
IsBanner(m) == "service" \in DOMAIN m

IsFrame(m) == DOMAIN m = {"dataset", "sequence", "timestamp", "original_timestamp", "event"}

\* The data frames a connection has been sent, in send order.
Frames(c) == IF sent[c] = <<>> THEN <<>> ELSE Tail(sent[c])

\* The instant a frame's timestamp string denotes.
FrameInstant(f) == Instant(fromisoformat(f.timestamp))

\* C2: on every connection the first message is the banner, every later
\* message is a data frame, and the j-th data frame carries sequence number
\* j, also past the end of a cycle.
C2_BannerThenConsecutiveSequence ==
  \A c \in Conns :
    /\ sent[c] /= <<>> => IsBanner(sent[c][1])
    /\ \A j \in 1..Len(Frames(c)) :
         /\ IsFrame(Frames(c)[j])
         /\ Frames(c)[j].sequence = j

\* A looping session of three records that has sent a frame of its second
\* cycle.
C2_Witness ==
  /\ loop
  /\ Len(events) = 3
  /\ loop_index[1] = 1
  /\ Len(Frames(1)) > Len(events)

\* C3: in loop mode the frame of record i in cycle k + 1 is stamped one
\* CycleSpan after the frame of record i in cycle k, and every frame's
\* original_timestamp is the record's own, unshifted timestamp.
C3_CycleShift ==
  \A c \in Conns :
    LET n == Len(events)
        fs == Frames(c)
    IN  \A j \in 1..Len(fs) :
          LET record == events[((j - 1) % n) + 1]
          IN  /\ fs[j].original_timestamp = record.payload.timestamp
              /\ fromisoformat(fs[j].original_timestamp) = record.timestamp
              /\ j + n <= Len(fs) =>
                   /\ FrameInstant(fs[j + n]) = FrameInstant(fs[j]) + cycle_span
                   /\ fs[j + n].event.timestamp = fs[j + n].timestamp

\* A looping session over records with different timestamps that has sent
\* the whole of its second cycle.
C3_Witness ==
  /\ loop
  /\ Len(events) >= 2
  /\ Instant(events[1].timestamp) < Instant(events[Len(events)].timestamp)
  /\ Len(Frames(1)) = 2 * Len(events)

\* C4: the cycle span is positive and larger than the span of the merged
\* sequence, the frames of a connection never go back in time, and the first
\* frame of a cycle is strictly later than the last frame of the cycle before.
C4_TimeNeverGoesBack ==
  main = "serving" =>
    /\ cycle_span > 0
    /\ cycle_span > DtSub(events[Len(events)].timestamp, events[1].timestamp)
    /\ \A c \in Conns :
         LET n == Len(events)
             fs == Frames(c)
         IN  \A j \in 1..(Len(fs) - 1) :
               /\ FrameInstant(fs[j]) <= FrameInstant(fs[j + 1])
               /\ j % n = 0 => FrameInstant(fs[j]) < FrameInstant(fs[j + 1])

\* A looping session whose records span more than one tick and which has
\* sent the first frame of its second cycle.
C4_Witness ==
  /\ loop
  /\ Len(events) >= 2
  /\ DtSub(events[Len(events)].timestamp, events[1].timestamp) > 0
  /\ Len(Frames(1)) = Len(events) + 1

RECURSIVE SumSeq(_)
SumSeq(q) == IF q = <<>> THEN 0 ELSE Head(q) + SumSeq(Tail(q))

\* The records stamped with the same instant as the record before them.
Ties(evs) ==
  Cardinality({i \in 2..Len(evs) : Instant(evs[i].timestamp) = Instant(evs[i - 1].timestamp)})

\* A pass without loop mode that sent every frame and returned.
CompletedPass(c) ==
  /\ ~loop
  /\ pc[c] = "returned"
  /\ ~disconnected[c]

\* C5 as stated: at a speed s > 0 the suspensions of one pass without loop
\* mode add up to (lastTimestamp - firstTimestamp) / s.  In units of
\* 1 / SleepDen(s) seconds that is 10 * den * span ticks.
C5_SleepEqualsSpan ==
  \A c \in Conns :
    (CompletedPass(c) /\ speed.num > 0) =>
      SumSeq(slept[c]) =
        10 * speed.den * DtSub(events[Len(events)].timestamp, events[1].timestamp)

\* C5 amended: the suspensions add up to (last - first) / s plus one minimum
\* gap of 0.1 / max(1, s) seconds for every record stamped like the record
\* before it.
C5_SleepEqualsSpanPlusTies ==
  \A c \in Conns :
    (CompletedPass(c) /\ speed.num > 0) =>
      SumSeq(slept[c]) =
        10 * speed.den * DtSub(events[Len(events)].timestamp, events[1].timestamp)
          + Ties(events) * MinimumGap(speed)

\* A completed pass at a positive speed over three records, two of them tied
\* and two of them apart.
C5_Witness ==
  /\ CompletedPass(1)
  /\ speed.num > 0
  /\ Len(events) = 3
  /\ Ties(events) = 1

\* ------------------------------------------------ C6: the end of a session
\* The j-th data frame of a connection is the frame of record
\* ((j - 1) mod n) + 1: every record once per cycle, in merged order.
OnePerRecordInOrder(c) ==
  LET n == Len(events)
      fs == Frames(c)
  IN  \A j \in 1..Len(fs) :
        LET record == events[((j - 1) % n) + 1]
        IN  /\ fs[j].dataset = record.dataset
            /\ fs[j].event.rec = record.payload.rec

Ended(c) == pc[c] \in {"returned", "raised"}

C6_Safety ==
  \A c \in Conns :
    /\ OnePerRecordInOrder(c)
    /\ (pc[c] = "returned" /\ ~disconnected[c]) =>
         /\ ~loop
         /\ Len(Frames(c)) = Len(events)
    /\ (loop /\ ~disconnected[c]) => ~Ended(c)
    /\ (loop /\ pc[c] = "loop" /\ idx[c] = Len(events) + 1) =>
         Len(Frames(c)) = (loop_index[c] + 1) * Len(events)

\* C6: without loop mode a session whose connection does not fail sends one
\* frame per record in merged order and then ends; in loop mode every cycle
\* sends every record once and the session does not end unless its
\* connection fails.
C6_OnePassThenEnd ==
  /\ []C6_Safety
  /\ \A c \in Conns : (~loop /\ pc[c] = "banner") ~> Ended(c)

\* A pass without loop mode over three records that sent them all and
\* returned.
C6_Witness ==
  /\ CompletedPass(1)
  /\ Len(events) = 3
  /\ Len(Frames(1)) = 3

\* ------------------------------------------- C7, C8: concurrent connections
\* The stream a connection is sent when it is the only one: the banner, then
\* frame j for record ((j - 1) mod n) + 1 of cycle (j - 1) div n.
SoloFrame(j) ==
  LET n == Len(events)
      record == events[((j - 1) % n) + 1]
      stamp == [valid |-> TRUE,
                wall |-> record.timestamp.wall + cycle_span * ((j - 1) \div n),
                aware |-> record.timestamp.aware,
                off |-> record.timestamp.off]
  IN  [dataset |-> record.dataset,
       sequence |-> j,
       timestamp |-> stamp,
       original_timestamp |-> record.payload.timestamp,
       event |-> [timestamp |-> stamp, rec |-> record.payload.rec]]

ReceivesSoloStream(c) ==
  /\ sent[c] /= <<>> => sent[c][1] = Banner
  /\ \A j \in 1..Len(Frames(c)) : Frames(c)[j] = SoloFrame(j)

\* C7 as stated: when the peer breaks or resets a connection during a send,
\* the banner's included, the handler returns without the error leaving it,
\* and the other connections keep their streams.
C7_DisconnectNeverPropagates ==
  \A c \in Conns :
    disconnected[c] =>
      /\ pc[c] = "returned"
      /\ \A d \in Conns \ {c} : ReceivesSoloStream(d)

\* C8: whatever the interleaving, every connection is sent a prefix of the
\* stream it would be sent alone, and no handler step changes the merged
\* sequence, the dataset names, the speed, the loop flag or the cycle span.
C8_IndependentSessions ==
  /\ [](\A c \in Conns : ReceivesSoloStream(c))
  /\ [][main = "serving" => UNCHANGED <<events, dataset_names, speed, loop, cycle_span>>]_vars

\* Two connections served at once: both are past the banner, the second has
\* been sent a frame and the first, started earlier, has been sent none.
C8_Witness ==
  /\ pc[1] = "loop"
  /\ pc[2] = "loop"
  /\ Len(Frames(2)) >= 1
  /\ Len(Frames(1)) = 0

\* ------------------------------------------------- C9: the rolling buffers
\* The last n items of q.
LastN(q, n) == IF Len(q) <= n THEN q ELSE SubSeq(q, Len(q) - n + 1, Len(q))

\* C9: a station's POS buffer holds at most 10 records, its RFID buffer at
\* most 20 and its vision buffer at most 10, and each buffer is the tail of
\* the records stored for that station and signal, in arrival order.
C9_BuffersHoldMostRecent ==
  \A st \in Stations :
    /\ Len(state[st].pos) <= 10
    /\ Len(state[st].rfid) <= 20
    /\ Len(state[st].vision) <= 10
    /\ state[st].pos = LastN(accepted[st].pos, 10)
    /\ state[st].rfid = LastN(accepted[st].rfid, 20)
    /\ state[st].vision = LastN(accepted[st].vision, 10)

\* A station that was handed 21 RFID records and a vision record, and scored:
\* the first RFID record is gone and the second is now the oldest.
C9_Witness ==
  /\ Len(accepted[BufferStation].rfid) = 21
  /\ Len(state[BufferStation].rfid) = 20
  /\ state[BufferStation].rfid[1].rec = 2
  /\ state[BufferStation].rfid[20].rec = 21
  /\ state[BufferStation].vision /= <<>>
  /\ state[BufferStation].score > 0

\* --------------------------------------------- C10: null-only RFID records
\* sku, epc and location are all null or missing.
AllNull(data) ==
  /\ data.sku \in {NULL, MISSING}
  /\ data.epc \in {NULL, MISSING}
  /\ data.location \in {NULL, MISSING}

\* C10: no RFID buffer ever holds a record whose sku, epc and location are
\* all null or missing, and a push_rfid call with such a record leaves the
\* whole fusion state, and so what compute returns for every station, as it
\* was.
C10_NullRfidIgnored ==
  /\ [](\A st \in Stations : \A i \in 1..Len(state[st].rfid) : ~AllNull(state[st].rfid[i]))
  /\ [][(last_call'.op = "push_rfid" /\ AllNull(last_call'.data[1])) =>
          /\ state' = state
          /\ \A st \in Stations : Scored(_get(st))' = Scored(_get(st))]_vars

\* A null-only record was just pushed to a station whose RFID buffer holds a
\* record pushed before it.
C10_Witness ==
  /\ last_call.op = "push_rfid"
  /\ AllNull(last_call.data[1])
  /\ state[last_call.st].rfid /= <<>>
  /\ calls = 3

\* ------------------------------------------------ C11: the score's range
\* The rule a reason names, by its wording.
RuleOfReason(text) ==
  CASE text[1] = "Vision " /\ text[Len(text)] = " not in POS" -> "scan avoidance"
    [] text[1] = "RFID in scan/bag area for vision SKU" -> "rfid in bag"
    [] text[1] = "Vision " /\ Len(text) = 4 /\ text[3] = " /= POS " -> "barcode switching"
    [] text[1] = "Weight delta " -> "weight discrepancy"
    [] text[1] = "High queue pressure" -> "queue pressure"
    [] OTHER -> "unknown"

\* The weights the rules carry, in hundredths.
RuleWeight(rule) ==
  CASE rule = "scan avoidance" -> 40
    [] rule = "rfid in bag" -> 20
    [] rule = "barcode switching" -> 30
    [] rule = "weight discrepancy" -> 25
    [] rule = "queue pressure" -> 5
    [] OTHER -> 0

RECURSIVE SumOfWeights(_)
SumOfWeights(reasons) ==
  IF reasons = <<>> THEN 0
  ELSE RuleWeight(RuleOfReason(Head(reasons))) + SumOfWeights(Tail(reasons))

\* C11: every station's stored score lies in [0.0, 1.0]; and whenever compute
\* returns, its score is min(1.0, the sum of the weights 0.40, 0.20, 0.30,
\* 0.25 and 0.05 of the rules its reasons name), no rule is named by two
\* reasons, and the station stores the score and reasons returned.
C11_ScoreIsClampedSum ==
  /\ \A st \in Stations : state[st].score >= 0 /\ state[st].score <= 100
  /\ (last_call.op = "compute" /\ result.value /= <<>>) =>
       LET r == result.value[1]
           sum == SumOfWeights(r.reasons)
       IN  /\ r.score = (IF sum > 100 THEN 100 ELSE sum)
           /\ \A i \in 1..Len(r.reasons) : RuleOfReason(r.reasons[i]) /= "unknown"
           /\ \A i, j \in 1..Len(r.reasons) :
                 i < j => RuleOfReason(r.reasons[i]) /= RuleOfReason(r.reasons[j])
           /\ state[last_call.st].score = r.score
           /\ state[last_call.st].reasons = r.reasons

\* compute has returned the clamped score 1.0 with all five rules fired,
\* whose weights add up to 1.20.
C11_Witness ==
  /\ last_call.op = "compute"
  /\ result.value /= <<>>
  /\ Len(result.value[1].reasons) = 5
  /\ SumOfWeights(result.value[1].reasons) = 120
  /\ result.value[1].score = 100

\* ------------------------------------------- C12: scoring twice in a row
\* The part of a station's state that ingestion writes.
Ingested(s) == <<s.pos, s.rfid, s.vision, s.queue>>

\* C12: when compute is called for a station right after a compute call for
\* the same station, it returns the score and the reason list the first call
\* returned, and the station's POS, RFID and vision buffers and its queue
\* snapshot are as they were before the second call.
C12_ComputeTwiceSame ==
  [][(/\ calls' = calls + 1
      /\ last_call'.op = "compute"
      /\ last_call'.again) =>
        /\ result' = result
        /\ Ingested(state'[last_call.st]) = Ingested(state[last_call.st])]_vars

\* compute has been called twice in a row for a station with a record in a
\* buffer, and has returned a score above zero.
C12_Witness ==
  /\ calls = 3
  /\ last_call.op = "compute"
  /\ last_call.again
  /\ result.value /= <<>>
  /\ result.value[1].score > 0
  /\ result.value[1].reasons /= <<>>

\* ------------------------------------------------- C13: scan avoidance
\* The reasons of a returned result that name the rule.
ReasonsOf(r, rule) == {i \in 1..Len(r.reasons) : RuleOfReason(r.reasons[i]) = rule}

\* The latest vision observation is confident and its product is the SKU of
\* no record in the POS buffer.
UnscannedProduct(s) ==
  /\ s.vision /= <<>>
  /\ "accuracy" \notin s.vision[Len(s.vision)].nulls
  /\ s.vision[Len(s.vision)].accuracy >= 85
  /\ \A i \in 1..Len(s.pos) : s.pos[i].sku /= s.vision[Len(s.vision)].predicted_product

\* Some RFID record has the latest vision product as SKU and a location in
\* the scan or bag area.
ProductInBag(s) ==
  \E i \in 1..Len(s.rfid) :
    /\ s.rfid[i].sku = s.vision[Len(s.vision)].predicted_product
    /\ s.rfid[i].location \in {"IN_SCAN_AREA", "in_bag"}

\* C13: whenever compute returns, its reasons hold a 'Vision <product>@
\* <confidence> not in POS' reason, and its score is at least 0.40, exactly
\* when the latest vision observation has confidence >= 0.85 and its product
\* is the SKU of no record in the POS buffer; and they hold the RFID reason,
\* with a score of at least 0.60, exactly when in addition an RFID record
\* has that product as SKU and a location in the scan/bag area.
C13_ScanAvoidanceExactlyWhen ==
  (last_call.op = "compute" /\ result.value /= <<>>) =>
    LET r == result.value[1]
        s == state[last_call.st]
        v == s.vision[Len(s.vision)]
    IN  /\ ReasonsOf(r, "scan avoidance") /= {} <=> UnscannedProduct(s)
        /\ \A i \in ReasonsOf(r, "scan avoidance") :
              /\ i = 1
              /\ r.reasons[i] = <<"Vision ", v.predicted_product, "@", ToString(v.accuracy), " not in POS">>
              /\ r.score >= 40
        /\ ReasonsOf(r, "rfid in bag") /= {} <=> (UnscannedProduct(s) /\ ProductInBag(s))
        /\ \A i \in ReasonsOf(r, "rfid in bag") : i = 2 /\ r.score >= 60

\* compute has returned both reasons at a confidence of exactly 0.85.
C13_Witness ==
  /\ last_call.op = "compute"
  /\ result.value /= <<>>
  /\ ReasonsOf(result.value[1], "scan avoidance") /= {}
  /\ ReasonsOf(result.value[1], "rfid in bag") /= {}
  /\ state[last_call.st].vision[Len(state[last_call.st].vision)].accuracy = 85
  /\ state[last_call.st].pos /= <<>>

\* ---------------------------------------------- C14: weight discrepancy
\* The reference weights of the product table, in grams.
ReferenceWeight(sku) ==
  CASE sku = "PRD_A" -> <<400>>
    [] sku = "PRD_B" -> <<480>>
    [] OTHER -> <<>>

\* The expected weight of a POS record: the one attached to it, else its
\* SKU's reference weight, else its observed weight.
ExpectedWeight(p) ==
  IF p.expected_weight /= <<>> THEN p.expected_weight[1]
  ELSE IF ReferenceWeight(p.sku) /= <<>> THEN ReferenceWeight(p.sku)[1]
  ELSE p.weight_g[1]

\* |observed - expected| > 0.07 * expected
OutOfTolerance(p) ==
  LET delta == p.weight_g[1] - ExpectedWeight(p)
  IN  100 * (IF delta < 0 THEN -delta ELSE delta) > 7 * ExpectedWeight(p)

\* C14: whenever compute returns, its reasons hold a weight reason exactly
\* when the latest POS record carries an observed weight that differs from
\* the expected weight by more than 0.07 of the expected weight; observed
\* 500 fires against expected 400 and does not against expected 480; and a
\* record whose SKU has no reference weight never fires the rule.
C14_WeightDiscrepancyExactlyWhen ==
  (last_call.op = "compute" /\ result.value /= <<>>) =>
    LET r == result.value[1]
        s == state[last_call.st]
        p == s.pos[Len(s.pos)]
        fired == ReasonsOf(r, "weight discrepancy") /= {}
    IN  /\ fired <=> (s.pos /= <<>> /\ p.weight_g /= <<>> /\ OutOfTolerance(p))
        /\ fired => r.score >= 25
        /\ (s.pos /= <<>> /\ p.weight_g = <<500>> /\ p.sku = "PRD_A") => fired
        /\ (s.pos /= <<>> /\ p.weight_g = <<500>> /\ p.sku = "PRD_B") => ~fired
        /\ (s.pos /= <<>> /\ ReferenceWeight(p.sku) = <<>>) => ~fired

\* ------------------------------------------------ C15: queue events
\* The names of the events a step has written.
NewNames == [i \in 1..(Len(_fh') - Len(_fh)) |-> _fh'[Len(_fh) + i].event_data.event_name]

\* customer_count and average_dwell_time of a snapshot, 0 when not given.
CustomerCount(q) == IF q.customer_count = <<>> THEN 0 ELSE q.customer_count[1]

AverageDwell(q) == IF q.average_dwell_time = <<>> THEN 0 ELSE q.average_dwell_time[1]

\* C15: a from_queue call writes 'Long Queue Length', 'Staffing Needs' and
\* 'Checkout Station Action', in this order, if and only if customer_count
\* >= 6, then 'Long Wait Time' if and only if average_dwell_time >= 120, and
\* nothing else.
C15_QueueEvents ==
  [][last_call'.op = "from_queue" =>
       /\ Len(_fh') >= Len(_fh)
       /\ NewNames =
            (IF CustomerCount(last_call'.data[1]) >= 6
               THEN <<"Long Queue Length", "Staffing Needs", "Checkout Station Action">>
               ELSE <<>>)
            \o (IF AverageDwell(last_call'.data[1]) >= 120 THEN <<"Long Wait Time">> ELSE <<>>)]_vars

\* from_queue was called with {customer_count: 6} on a fresh mapper and the
\* file holds exactly the three events.
C15_Witness ==
  /\ last_call.op = "from_queue"
  /\ last_call.data[1] = QueueSnapshot(<<6>>, <<>>)
  /\ Len(_fh) = 3
  /\ _fh[1].event_data.event_name = "Long Queue Length"
  /\ _fh[2].event_data.event_name = "Staffing Needs"
  /\ _fh[3].event_data.event_name = "Checkout Station Action"

\* ------------------------------------------- C16: event identifiers
\* The number an identifier's digits spell.
RECURSIVE NumberOf(_)
NumberOf(digits) ==
  IF digits = <<>> THEN 0 ELSE 10 * NumberOf(SubSeq(digits, 1, Len(digits) - 1)) + digits[Len(digits)]

\* C16: the identifier of each written event is one more than that of the
\* event written before it, the counter of the first being 0, so identifiers
\* increase strictly and none is reused; and a step never changes or removes
\* an event already written.
C16_IdsIncreaseByOne ==
  /\ [](\A i \in 1..Len(_fh) :
          /\ _fh[i].event_id.prefix = "E"
          /\ Len(_fh[i].event_id.digits) >= 3
          /\ NumberOf(_fh[i].event_id.digits) = i - 1)
  /\ [][Len(_fh') >= Len(_fh) /\ SubSeq(_fh', 1, Len(_fh)) = _fh]_vars

\* Events of from_fusion, maybe_status and from_queue stand in one file.
C16_Witness ==
  /\ Len(_fh) >= 4
  /\ \E i, j, k \in 1..Len(_fh) :
       /\ _fh[i].event_data.event_name = "Unexpected Systems Crash"
       /\ _fh[j].event_data.event_name = "Scanner Avoidance"
       /\ _fh[k].event_data.event_name = "Long Wait Time"
       /\ i < j /\ j < k

\* -------------------------------------------- C17: lines of the stream
\* The newline-terminated lines of a text, in order.
RECURSIVE TerminatedLines(_, _)
TerminatedLines(text, line) ==
  IF text = <<>> THEN <<>>
  ELSE IF Head(text) = LF THEN <<line>> \o TerminatedLines(Tail(text), <<>>)
  ELSE TerminatedLines(Tail(text), Append(line, Head(text)))

\* A line with the blanks at its ends removed.
RECURSIVE Trimmed(_)
Trimmed(line) ==
  IF line /= <<>> /\ Head(line) = " " THEN Trimmed(Tail(line))
  ELSE IF line /= <<>> /\ line[Len(line)] = " " THEN Trimmed(SubSeq(line, 1, Len(line) - 1))
  ELSE line

\* The non-blank newline-terminated lines of the stream.
StreamLines ==
  LET all == TerminatedLines(decode(stream), <<>>)
      trimmed == [i \in 1..Len(all) |-> Trimmed(all[i])]
  IN  SelectSeq(trimmed, LAMBDA l : l /= <<>>)

\* C17: however the stream is cut into chunks, once readlines has stopped
\* on a closed connection it has yielded exactly the non-blank
\* newline-terminated lines of the stream, each once and in stream order.
C17_LinesWhateverTheChunks ==
  (reader = "stopped" /\ ending = "closed") => lines = StreamLines

\* ------------------------------------------ C18: a line that fails to decode
\* What consume_once holds before the first line.
FreshConfig ==
  [state |-> [st \in Stations |-> NoStation],
   accepted |-> [st \in Stations |-> [pos |-> <<>>, rfid |-> <<>>, vision |-> <<>>]],
   result |-> None, _counter |-> 0, _fh |-> <<>>, frames |-> 0, consumer |-> "reading"]

\* A session that is sent the lines of ls, one after the other.
RECURSIVE Session(_)
Session(ls) ==
  IF ls = <<>> THEN FreshConfig ELSE Consumed(Session(SubSeq(ls, 1, Len(ls) - 1)), ls[Len(ls)])

\* json.loads returns a value for the line.
Decodes(line) == line.json \notin {"invalid", "nested"}

\* C18: the step that takes a line json.loads fails on leaves the fusion
\* state and the output as they are and the session reading; and after any
\* lines the fusion state, the output, the identifier counter and the frames
\* counted are those of a session that was sent the same lines without the
\* rejected ones.
C18_BadLineSkipped ==
  /\ [][(/\ consumer = "reading"
          /\ incoming /= <<>>
          /\ ~Decodes(Head(incoming))
          /\ incoming' = Tail(incoming)) =>
            /\ state' = state
            /\ _fh' = _fh
            /\ consumer' = "reading"]_vars
  /\ [](consumer \in {"reading", "returned"} =>
          LET without == Session(SelectSeq(lines, Decodes))
          IN  /\ state = without.state
              /\ _fh = without._fh
              /\ _counter = without._counter
              /\ frames = without.frames
              /\ without.consumer = "reading")

\* ------------------------------------------------- C19: a read timeout
\* C19: when the connection ends in a read timeout after the last line, the
\* consumer loop finishes normally, as it does on a closed connection.
C19_TimeoutEndsNormally ==
  (incoming = <<>> /\ consumer \notin {"reading", "AttributeError", "TypeError", "RecursionError"}) =>
    consumer = "returned"

\* ------------------------------------- C20: the stored score is current
\* C20: between two lines and after the last, every station's stored score
\* and reasons are what compute would return on the station's state.
C20_StoredScoreCurrent ==
  consumer \in {"reading", "returned"} =>
    \A st \in Stations :
      (state[st].present /\ ~ComputeRaises(state[st])) =>
        /\ state[st].score = Scored(state[st]).score
        /\ state[st].reasons = Scored(state[st]).reasons

\* ------------------------------------ C21: one event per mapped reason
\* The event name of a rule that has one.
EventOfRule(rule) ==
  CASE rule = "scan avoidance" -> "Scanner Avoidance"
    [] rule = "barcode switching" -> "Barcode Switching"
    [] rule = "weight discrepancy" -> "Weight Discrepancies"
    [] OTHER -> NULL

MappedReason(text) == EventOfRule(RuleOfReason(text)) /= NULL

\* C21: a call of from_fusion on the result compute gives for a station
\* appends, in the order of the reasons, exactly one event for each reason
\* of scan avoidance (Scanner Avoidance), barcode switching (Barcode
\* Switching) and weight discrepancy (Weight Discrepancies) and none for the
\* RFID and queue reasons: at most three events, and none for no reasons.
C21_OneEventPerMappedReason ==
  [][(last_call'.op = "from_fusion") =>
       LET reasons == Scored(last_call'.data[1]).reasons
           mapped == SelectSeq(reasons, MappedReason)
           new == SubSeq(_fh', Len(_fh) + 1, Len(_fh'))
       IN  /\ Len(new) = Len(mapped)
           /\ \A i \in 1..Len(new) :
                 i <= Len(mapped) =>
                   new[i].event_data.event_name = EventOfRule(RuleOfReason(mapped[i]))
           /\ Len(new) <= 3
           /\ (reasons = <<>> => new = <<>>)]_vars

\* ------------------------- C22: scan avoidance brings barcode switching
\* The latest POS record of the station carries a SKU.
LatestPosHasSku(s) ==
  /\ s.pos /= <<>>
  /\ s.pos[Len(s.pos)].sku \notin {NULL, MISSING, ""}

\* C22: whenever compute returns a scan-avoidance reason for a station
\* whose latest POS record carries a SKU, it returns a barcode-switching
\* reason as well, naming the vision product and that SKU, and a score of at
\* least 0.70.
C22_ScanAvoidanceBringsBarcodeSwitching ==
  (last_call.op = "compute" /\ result.value /= <<>>) =>
    LET r == result.value[1]
        s == state[last_call.st]
    IN  (ReasonsOf(r, "scan avoidance") /= {} /\ LatestPosHasSku(s)) =>
          /\ \E i \in ReasonsOf(r, "barcode switching") :
                r.reasons[i] = <<"Vision ", s.vision[Len(s.vision)].predicted_product,
                                 " /= POS ", s.pos[Len(s.pos)].sku>>
          /\ r.score >= 70

\* compute has returned scan avoidance and barcode switching together for a
\* station whose POS buffer holds a record without a SKU before the latest
\* one, which has a SKU.
C22_Witness ==
  /\ last_call.op = "compute"
  /\ result.value /= <<>>
  /\ ReasonsOf(result.value[1], "scan avoidance") /= {}
  /\ ReasonsOf(result.value[1], "barcode switching") /= {}
  /\ LatestPosHasSku(state[last_call.st])
  /\ Len(state[last_call.st].pos) = 2
  /\ state[last_call.st].pos[1].sku = NULL

\* The converse fails: compute has returned barcode switching without scan
\* avoidance, the vision product being the SKU of an older POS record.
BarcodeSwitchingAlone ==
  /\ last_call.op = "compute"
  /\ result.value /= <<>>
  /\ ReasonsOf(result.value[1], "barcode switching") /= {}
  /\ ReasonsOf(result.value[1], "scan avoidance") = {}
  /\ Len(state[last_call.st].pos) = 2
  /\ state[last_call.st].pos[1].sku = state[last_call.st].vision[1].predicted_product
  /\ state[last_call.st].vision[1].accuracy >= 85

\* Scan avoidance fires alone when the latest POS record has no SKU.
ScanAvoidanceAlone ==
  /\ last_call.op = "compute"
  /\ result.value /= <<>>
  /\ ReasonsOf(result.value[1], "scan avoidance") /= {}
  /\ ReasonsOf(result.value[1], "barcode switching") = {}
  /\ state[last_call.st].pos /= <<>>

====
